---- MODULE Spec2Model ----
(***************************************************************************)
(* Model of getResonanceShapes.py: ShapeStorage (validation of the input   *)
(* shapes), LineShapePDF (interpolation between known masses, integration  *)
(* over the target bins, normalisation) and the group loop of main.        *)
(*                                                                         *)
(* Real numbers are exact rationals <<n, d>> with d > 0 in lowest terms,   *)
(* so that 0.2 is <<1, 5>> and the tolerance 0.01 is <<1, 100>>.           *)
(***************************************************************************)
EXTENDS Integers, Sequences, FiniteSets, TLC

VARIABLES
    pc,           \* "start", "stored", "bins", "returned", "exit" (sys.exit), and
                  \* in main "group", "masses", "done"
    shapes,       \* ShapeStorage.shapes: mass -> sequence of bin contents
    binxcenters,  \* ShapeStorage.binxcenters: the x grid
    exitCode,     \* argument of sys.exit, 0 while the process runs
    errKey,       \* the mass printed by the "not normalized" message, 0 if none
    mass,         \* LineShapePDF's argument mass
    edges,        \* bin edges of LineShapePDF's argument histo
    y,            \* the curve handed to the interpolator
    pair,         \* <<ml, mh>> of the blend, <<>> when mass is a known mass
    bin,          \* loop variable i of LineShapePDF
    content,      \* bin contents of histo
    integ,        \* per bin: <<xlow, xhigh, value>> of the call of Integ, <<>> if none
    filled,       \* contents as the bin loop left them, before Scale
    warnings,     \* warnings printed so far
    groups,       \* main: the group names of the list file, in order
    step,         \* main: args.step
    fineBinning,  \* main: args.fineBinning
    storePDF,     \* main: args.storePDF
    storeCDF,     \* main: args.storeCDF
    gi,           \* main: index of the group the loop is at
    ok,           \* main: counter ok
    fail,         \* main: counter fail
    groupLog,     \* main: how the pass of each group begun so far went
    masses,       \* main: the mass list of the group
    mi,           \* main: index of the mass the inner loop is at
    outPath,      \* main: output_path of the group
    files,        \* main: output file -> the histogram names written to it
    writes,       \* main: the calls of Write so far: group, mass, kind, file, name
    pdf,          \* main: bin contents of h_pdf, <<>> when it is not built
    cdf,          \* main: bin contents of h_cdf, <<>> when it is not built
    summary       \* main: whether the [SUMMARY] line was printed

libVars == <<shapes, binxcenters, exitCode, errKey, mass, edges, y, pair, bin,
             content, integ, filled, warnings>>
mainVars == <<groups, step, fineBinning, storePDF, storeCDF, gi, ok, fail,
              groupLog, masses, mi, outPath, files, writes, pdf, cdf, summary>>
vars == <<pc, libVars, mainVars>>

----------------------------------------------------------------------------
(* Exact rational arithmetic standing for Python's float arithmetic.       *)

Abs(n) == IF n < 0 THEN -n ELSE n

RECURSIVE GCD(_, _)
GCD(a, b) == IF b = 0 THEN a ELSE GCD(b, a % b)

Rat(n, d) ==
    LET s == IF d < 0 THEN -1 ELSE 1
        g == GCD(Abs(n), Abs(d))
    IN  <<(s * n) \div g, (s * d) \div g>>

RInt(n) == <<n, 1>>
RAdd(a, b) == Rat(a[1] * b[2] + b[1] * a[2], a[2] * b[2])
RSub(a, b) == Rat(a[1] * b[2] - b[1] * a[2], a[2] * b[2])
RMul(a, b) == Rat(a[1] * b[1], a[2] * b[2])
RDiv(a, b) == Rat(a[1] * b[2], a[2] * b[1])
RAbs(a) == <<Abs(a[1]), a[2]>>
RLt(a, b) == a[1] * b[2] < b[1] * a[2]
RLe(a, b) == a[1] * b[2] <= b[1] * a[2]

RECURSIVE RSum(_)
RSum(s) == IF s = <<>> THEN RInt(0) ELSE RAdd(s[1], RSum(Tail(s)))

----------------------------------------------------------------------------
(* Inputs.                                                                 *)

MaxMass == 4
MaxShapes == 3
MaxGroups == 2
MaxStep == 2

Masses == 1 .. MaxMass

\* Shapes a caller may supply. Three bins: the two of the documented scenario
\* and one whose sum is 1.05. Two bins: sums 1, exactly 1.01, 1.02 and 0.95.
ShapePool ==
    { <<Rat(2, 10), Rat(3, 10), Rat(5, 10)>>,
      <<Rat(5, 10), Rat(3, 10), Rat(2, 10)>>,
      <<Rat(5, 10), Rat(3, 10), Rat(25, 100)>>,
      <<Rat(1, 2), Rat(1, 2)>>,
      <<Rat(1, 2), Rat(51, 100)>>,
      <<Rat(1, 2), Rat(52, 100)>>,
      <<Rat(45, 100), Rat(1, 2)>> }

\* Grids a caller may supply; nothing orders them before the constructor.
GridPool ==
    { <<Rat(1, 10), Rat(5, 10), Rat(9, 10)>>,
      <<Rat(9, 10), Rat(5, 10), Rat(1, 10)>>,
      <<Rat(3, 10), Rat(9, 10)>> }

\* Dicts of at most MaxShapes entries.
ShapeDicts ==
    UNION { [K -> ShapePool] : K \in {S \in SUBSET Masses : Cardinality(S) <= MaxShapes} }

\* Target histograms a caller may pass: the bin edges, in the units of the
\* masses. One with bins of growing width, one with unit bins.
EdgePool ==
    { <<RInt(0), RInt(1), RInt(2), RInt(4), RInt(8)>>,
      <<RInt(0), RInt(1), RInt(2)>> }

\* Target masses: the known range and one step above it.
TargetMasses == 1 .. MaxMass + 1

\* Values Math.Interpolator.Integ may return for a bin: the integral of the
\* spline through the curve, which can undershoot below 0.
IntegValues == { Rat(-1, 10), RInt(0), Rat(1, 10), Rat(3, 10) }

RECURSIVE Sorted(_)
Sorted(K) ==
    IF K = {} THEN <<>>
    ELSE LET m == CHOOSE a \in K : \A b \in K : a <= b
         IN  <<m>> \o Sorted(K \ {m})

\* Orders in which a dict with key set K may iterate (its insertion order):
\* the rotations of the ascending order, so that every key comes first in one.
KeyOrders(K) ==
    LET s == Sorted(K)
        n == Len(s)
    IN  IF n = 0 THEN {<<>>}
        ELSE { [i \in 1 .. n |-> s[((i + r - 1) % n) + 1]] : r \in 0 .. n - 1 }

----------------------------------------------------------------------------
(* ShapeStorage.__init__                                                   *)

Tolerance_Loose == Rat(1, 10)
Tolerance == Rat(1, 100)

Unnormalized_NoAbs(shape) == RLt(Tolerance, RSub(RSum(shape), RInt(1)))
Unnormalized(shape) == RLt(Tolerance, RAbs(RSub(RSum(shape), RInt(1))))

\* The first key, in iteration order, whose shape fails the norm test; 0 if none.
RECURSIVE FirstUnnormalized(_, _)
FirstUnnormalized(sh, order) ==
    IF order = <<>> THEN 0
    ELSE IF Unnormalized(sh[order[1]]) THEN order[1]
    ELSE FirstUnnormalized(sh, Tail(order))

NBins_ShapesOnly(sh, xs) == {Len(sh[k]) : k \in DOMAIN sh}
NBins(sh, xs) == {Len(xs)} \cup {Len(sh[k]) : k \in DOMAIN sh}

ShapeStorageCheck_NeedsThree(sh, order, xs) ==
    IF Cardinality(DOMAIN sh) <= 2 THEN <<1, 0>>
    ELSE IF FirstUnnormalized(sh, order) # 0 THEN <<3, FirstUnnormalized(sh, order)>>
    ELSE IF Cardinality(NBins(sh, xs)) > 1 THEN <<2, 0>>
    ELSE <<0, 0>>

\* What the constructor does: <<exit code, key printed>>, <<0, 0>> on success.
ShapeStorageCheck(sh, order, xs) ==
    IF Cardinality(DOMAIN sh) < 2 THEN <<1, 0>>
    ELSE IF FirstUnnormalized(sh, order) # 0 THEN <<3, FirstUnnormalized(sh, order)>>
    ELSE IF Cardinality(NBins(sh, xs)) > 1 THEN <<2, 0>>
    ELSE <<0, 0>>

----------------------------------------------------------------------------
(* LineShapePDF                                                            *)

SetMax(K) == CHOOSE a \in K : \A b \in K : b <= a
SetMin(K) == CHOOSE a \in K : \A b \in K : a <= b

BlendPair_Outermost(sh, m) ==
    LET input_masses == Sorted(DOMAIN sh)
        n == Len(input_masses)
    IN  IF m < input_masses[1] THEN <<input_masses[1], input_masses[2]>>
        ELSE IF m > input_masses[n] THEN <<input_masses[n - 1], input_masses[n]>>
        ELSE <<input_masses[1], input_masses[n]>>

BlendPair_AboveUsesLowest(sh, m) ==
    LET input_masses == Sorted(DOMAIN sh)
        n == Len(input_masses)
    IN  IF m < input_masses[1] THEN <<input_masses[1], input_masses[2]>>
        ELSE IF m > input_masses[n] THEN <<input_masses[1], input_masses[2]>>
        ELSE <<SetMax({k \in DOMAIN sh : k < m}), SetMin({k \in DOMAIN sh : k > m})>>

\* <<ml, mh>> for a mass that is not a key of sh.
BlendPair(sh, m) ==
    LET input_masses == Sorted(DOMAIN sh)
        n == Len(input_masses)
    IN  IF m < input_masses[1] THEN <<input_masses[1], input_masses[2]>>
        ELSE IF m > input_masses[n] THEN <<input_masses[n - 1], input_masses[n]>>
        ELSE <<SetMax({k \in DOMAIN sh : k < m}), SetMin({k \in DOMAIN sh : k > m})>>

\* y = ((yh - yl) / float(mh - ml)) * float(mass - ml) + yl
Blend(yl, yh, ml, mh, m) ==
    [i \in 1 .. Len(yl) |->
        RAdd(RMul(RDiv(RSub(yh[i], yl[i]), RInt(mh - ml)), RInt(m - ml)), yl[i])]

Curve(sh, m) ==
    IF m \in DOMAIN sh THEN sh[m]
    ELSE LET p == BlendPair(sh, m)
         IN  Blend(sh[p[1]], sh[p[2]], p[1], p[2], m)

ExtrapolationWarning(sh, m) ==
    IF m \in DOMAIN sh THEN {}
    ELSE IF m < Sorted(DOMAIN sh)[1] THEN {"below"}
    ELSE IF m > Sorted(DOMAIN sh)[Cardinality(DOMAIN sh)] THEN {"above"}
    ELSE {}

NbinsX(e) == Len(e) - 1
BinLowEdge(e, i) == e[i]
BinUpEdge(e, i) == e[i + 1]
BinCenter(e, i) == RDiv(RAdd(e[i], e[i + 1]), RInt(2))

InDomain_ByWindow(xs, e, i, m) ==
    /\ RLt(xs[1], RDiv(BinUpEdge(e, i), RInt(m)))
    /\ RLt(RDiv(BinLowEdge(e, i), RInt(m)), xs[Len(xs)])

\* The test of line 105 on bin i of a histogram with edges e.
InDomain(xs, e, i, m) ==
    LET xcenter == RDiv(BinCenter(e, i), RInt(m))
    IN  RLt(xs[1], xcenter) /\ RLt(xcenter, xs[Len(xs)])

IntegLimits_Unclamped(xs, e, i, m) ==
    << RDiv(BinLowEdge(e, i), RInt(m)), RDiv(BinUpEdge(e, i), RInt(m)) >>

\* The limits handed to Integ for bin i.
IntegLimits(xs, e, i, m) ==
    LET xlow  == RDiv(BinLowEdge(e, i), RInt(m))
        xhigh == RDiv(BinUpEdge(e, i), RInt(m))
    IN  << IF RLt(xlow, xs[1]) THEN xs[1] ELSE xlow,
           IF RLt(xs[Len(xs)], xhigh) THEN xs[Len(xs)] ELSE xhigh >>

Floored_Not(integral) == integral

\* histo.SetBinContent(i, (integral if integral >= 0. else 0.))
Floored(integral) == IF RLe(RInt(0), integral) THEN integral ELSE RInt(0)

Scaled_AboveOne(c) ==
    LET integral == RSum(c)
    IN  IF RLt(RInt(1), integral)
        THEN [i \in 1 .. Len(c) |-> RMul(c[i], RDiv(RInt(1), integral))]
        ELSE c

\* histo.Integral(); if integral > 0: histo.Scale(1. / integral)
Scaled(c) ==
    LET integral == RSum(c)
    IN  IF RLt(RInt(0), integral)
        THEN [i \in 1 .. Len(c) |-> RMul(c[i], RDiv(RInt(1), integral))]
        ELSE c

----------------------------------------------------------------------------

NoCall ==
    /\ shapes = <<>>
    /\ binxcenters = <<>>
    /\ exitCode = 0
    /\ errKey = 0
    /\ mass = 0
    /\ edges = <<>>
    /\ y = <<>>
    /\ pair = <<>>
    /\ bin = 0
    /\ content = <<>>
    /\ integ = <<>>
    /\ filled = <<>>
    /\ warnings = {}

NoMain ==
    /\ groups = <<>>
    /\ step = 0
    /\ fineBinning = FALSE
    /\ storePDF = FALSE
    /\ storeCDF = FALSE
    /\ gi = 0
    /\ ok = 0
    /\ fail = 0
    /\ groupLog = <<>>
    /\ masses = <<>>
    /\ mi = 0
    /\ outPath = <<>>
    /\ files = <<>>
    /\ writes = {}
    /\ pdf = <<>>
    /\ cdf = <<>>
    /\ summary = FALSE

\* A caller that constructs a ShapeStorage and calls LineShapePDF on it.
Init ==
    /\ pc = "start"
    /\ NoCall
    /\ NoMain

\* storage = ShapeStorage(sh, xs)
ShapeStorageInit ==
    /\ pc = "start"
    /\ \E sh \in ShapeDicts, xs \in GridPool :
         \E order \in KeyOrders(DOMAIN sh) :
            LET r == ShapeStorageCheck(sh, order, xs) IN
            /\ shapes' = sh
            /\ binxcenters' = xs
            /\ exitCode' = r[1]
            /\ errKey' = r[2]
            /\ pc' = IF r[1] = 0 THEN "stored" ELSE "exit"
    /\ UNCHANGED <<mass, edges, y, pair, bin, content, integ, filled, warnings>>
    /\ UNCHANGED mainVars

\* LineShapePDF(storage, m, histo), lines 79-101: the curve is chosen.
LineShapePDFCurve ==
    /\ pc = "stored"
    /\ \E m \in TargetMasses, e \in EdgePool :
         /\ mass' = m
         /\ edges' = e
         /\ y' = Curve(shapes, m)
         /\ pair' = IF m \in DOMAIN shapes THEN <<>> ELSE BlendPair(shapes, m)
         /\ warnings' = warnings \cup ExtrapolationWarning(shapes, m)
         /\ content' = [i \in 1 .. NbinsX(e) |-> RInt(0)]
         /\ integ' = [i \in 1 .. NbinsX(e) |-> <<>>]
    /\ bin' = 1
    /\ pc' = "bins"
    /\ UNCHANGED <<shapes, binxcenters, exitCode, errKey, filled>>
    /\ UNCHANGED mainVars

\* One pass of the loop of lines 103-113.
LineShapePDFBin ==
    /\ pc = "bins"
    /\ bin <= NbinsX(edges)
    /\ IF InDomain(binxcenters, edges, bin, mass)
       THEN \E integral \in IntegValues :
              /\ integ' = [integ EXCEPT ![bin] =
                            IntegLimits(binxcenters, edges, bin, mass) \o <<integral>>]
              /\ content' = [content EXCEPT ![bin] = Floored(integral)]
       ELSE /\ content' = [content EXCEPT ![bin] = RInt(0)]
            /\ UNCHANGED integ
    /\ bin' = bin + 1
    /\ UNCHANGED <<pc, shapes, binxcenters, exitCode, errKey, mass, edges, y, pair,
                   filled, warnings>>
    /\ UNCHANGED mainVars

\* Lines 114-116, and the return.
LineShapePDFScale ==
    /\ pc = "bins"
    /\ bin > NbinsX(edges)
    /\ filled' = content
    /\ content' = Scaled(content)
    /\ pc' = "returned"
    /\ UNCHANGED <<shapes, binxcenters, exitCode, errKey, mass, edges, y, pair, bin,
                   integ, warnings>>
    /\ UNCHANGED mainVars

Next ==
    \/ ShapeStorageInit
    \/ LineShapePDFCurve
    \/ LineShapePDFBin
    \/ LineShapePDFScale

Spec == Init /\ [][Next]_vars
----------------------------------------------------------------------------
(* main: the loop over the groups of the list file.                        *)

\* Group names are sequences of tokens joined by "_", lower-cased.
GroupNames ==
    << <<"qstar">>, <<"qstar", "v2">>, <<"rsgtoqq", "kmpl01">>, <<"rsgtogg", "kmpl01">> >>

InferTypeFromGroup(g) ==
    IF g[1] = "rsgtoqq" THEN "qq"
    ELSE IF g[1] = "rsgtogg" THEN "gg"
    ELSE IF g[1] = "qstar" THEN "qg"
    ELSE "qq"

\* Standard dijet mass binning: its first boundaries.
BinBoundaries == <<RInt(1), RInt(3), RInt(6), RInt(10)>>

\* The fine binning: unit bins from 0 to the last boundary.
FineEdges == [i \in 1 .. BinBoundaries[Len(BinBoundaries)][1] + 1 |-> RInt(i - 1)]

\* What main finds on disk for a group: whether InputShapes_<group>.py
\* exists, the sorted suffixes of the files InputShapes_<group>_*.py, whether
\* the module loads, whether every key of its shapes converts with int(), its
\* shapes and binxcenters, and whether the output file opens as a zombie.
Disk(pref, m, l, k, sh, xs, z) ==
    [preferred |-> pref, matches |-> m, loads |-> l, intKeys |-> k,
     shapes |-> sh, binxcenters |-> xs, zombie |-> z]

ShapeA == <<Rat(2, 10), Rat(3, 10), Rat(5, 10)>>
ShapeB == <<Rat(5, 10), Rat(3, 10), Rat(2, 10)>>
ShapeHigh == <<Rat(5, 10), Rat(3, 10), Rat(25, 100)>>
Grid3 == <<Rat(1, 10), Rat(3, 10), Rat(7, 10)>>
Grid2 == <<Rat(3, 10), Rat(9, 10)>>

DiskPool ==
    { Disk(FALSE, <<>>, TRUE, TRUE, <<>>, Grid3, FALSE),
      Disk(TRUE, <<>>, FALSE, TRUE, <<>>, Grid3, FALSE),
      Disk(TRUE, <<>>, TRUE, FALSE, (1 :> ShapeA) @@ (3 :> ShapeB), Grid3, FALSE),
      Disk(TRUE, <<>>, TRUE, TRUE, (1 :> ShapeA) @@ (3 :> ShapeB), Grid3, TRUE),
      Disk(TRUE, <<>>, TRUE, TRUE, (1 :> ShapeA) @@ (3 :> ShapeB), Grid3, FALSE),
      Disk(FALSE, << <<"v2">> >>, TRUE, TRUE,
           (2 :> ShapeB) @@ (3 :> ShapeA), Grid3, FALSE),
      Disk(TRUE, <<>>, TRUE, TRUE, (2 :> ShapeA), Grid3, FALSE),
      Disk(TRUE, <<>>, TRUE, TRUE, (1 :> ShapeA) @@ (2 :> ShapeHigh), Grid3, FALSE),
      Disk(TRUE, <<>>, TRUE, TRUE, (1 :> ShapeA) @@ (2 :> ShapeB), Grid2, FALSE) }

None == << <<>>, <<"None">> >>

\* resolve_shapes_py: the path of the shapes file of a group, as the pair of
\* its directory <base_dir>/<group>/combined and its file name without ".py".
ResolveShapesPy(d, group) ==
    IF d.preferred THEN <<group, <<"InputShapes">> \o group>>
    ELSE IF d.matches # <<>> THEN <<group, <<"InputShapes">> \o group \o d.matches[1]>>
    ELSE None

\* Lines 211-212: the directory of shapes_py is dropped by basename, and
\* every "InputShapes" of the file name becomes "ResonanceShapes".
OutputPath(shapes_py) ==
    LET base == shapes_py[2]
    IN  [i \in 1 .. Len(base) |->
            IF base[i] = "InputShapes" THEN "ResonanceShapes" ELSE base[i]]

MassList_NoEndpoint(min_mass, max_mass, st) ==
    [i \in 1 .. ((max_mass - min_mass) \div st) + 1 |-> min_mass + (i - 1) * st]

\* list(range(min_mass, max_mass + 1, step)), and max_mass appended if missing
MassList(min_mass, max_mass, st) ==
    LET r == [i \in 1 .. ((max_mass - min_mass) \div st) + 1 |-> min_mass + (i - 1) * st]
    IN  IF r[Len(r)] # max_mass THEN Append(r, max_mass) ELSE r

HistName(group, m) == <<"h", InferTypeFromGroup(group), m>>

\* Lines 121-176: the arguments are parsed and the list file is read.
InitMain ==
    /\ pc = "group"
    /\ NoCall
    /\ groups \in {SubSeq(GroupNames, 1, n) : n \in 1 .. MaxGroups}
    /\ step \in 1 .. MaxStep
    /\ fineBinning \in BOOLEAN
    /\ storePDF \in BOOLEAN
    /\ storeCDF \in BOOLEAN
    /\ gi = 1
    /\ ok = 0
    /\ fail = 0
    /\ groupLog = <<>>
    /\ masses = <<>>
    /\ mi = 0
    /\ outPath = <<>>
    /\ files = <<>>
    /\ writes = {}
    /\ pdf = <<>>
    /\ cdf = <<>>
    /\ summary = FALSE

\* TAxis::FindBin on an axis with edges e: 0 is the underflow bin and
\* NbinsX + 1 the overflow bin.
FindBin(e, x) ==
    IF RLt(x, e[1]) THEN 0
    ELSE IF RLe(e[Len(e)], x) THEN NbinsX(e) + 1
    ELSE CHOOSE i \in 1 .. NbinsX(e) : RLe(e[i], x) /\ RLt(x, e[i + 1])

PdfWindow_NoInset(e, i) ==
    << FindBin(FineEdges, BinLowEdge(e, i)), FindBin(FineEdges, BinUpEdge(e, i)) >>

\* Lines 251-252: <<bin_min, bin_max>> of bin i of h_shape, whose edges are e.
PdfWindow(e, i) ==
    << FindBin(FineEdges, RAdd(BinLowEdge(e, i), Rat(1, 2))),
       FindBin(FineEdges, RSub(BinUpEdge(e, i), Rat(1, 2))) >>

\* Line 253.
PdfWidth(w) == IF w[2] - w[1] + 1 > 1 THEN w[2] - w[1] + 1 ELSE 1

\* Lines 250-256 from bin i of h_shape on: p is h_pdf so far, c the contents
\* of h_shape; SetBinContent overwrites what an earlier bin has set.
RECURSIVE PdfFill(_, _, _, _)
PdfFill(p, e, c, i) ==
    IF i > NbinsX(e) THEN p
    ELSE LET w == PdfWindow(e, i)
             val == RDiv(c[i], RInt(PdfWidth(w)))
         IN  PdfFill([b \in DOMAIN p |-> IF w[1] <= b /\ b <= w[2] THEN val ELSE p[b]],
                     e, c, i + 1)

\* h_pdf after the loop of lines 250-256, underflow and overflow bin included.
Pdf(e, c) == PdfFill([b \in 0 .. NbinsX(FineEdges) + 1 |-> RInt(0)], e, c, 1)

RECURSIVE CdfFill_NoPrev(_, _, _)
CdfFill_NoPrev(c, p, i) ==
    IF i > NbinsX(FineEdges) THEN c
    ELSE LET w == PdfWindow(FineEdges, i)
             curr == RSum([k \in 1 .. w[2] - w[1] + 1 |-> p[w[1] + k - 1]])
         IN  CdfFill_NoPrev([c EXCEPT ![i] = curr], p, i + 1)

\* Lines 259-266 from bin i of h_cdf on: c is h_cdf so far, p is h_pdf.
RECURSIVE CdfFill(_, _, _)
CdfFill(c, p, i) ==
    IF i > NbinsX(FineEdges) THEN c
    ELSE LET w == PdfWindow(FineEdges, i)
             curr == RSum([k \in 1 .. w[2] - w[1] + 1 |-> p[w[1] + k - 1]])
             prev == c[i - 1]
         IN  CdfFill([c EXCEPT ![i] = RAdd(prev, curr)], p, i + 1)

\* h_cdf after the loop of lines 259-266.
Cdf(p) == CdfFill([b \in 0 .. NbinsX(FineEdges) + 1 |-> RInt(0)], p, 1)

\* The names and kinds of the histograms one pass of the mass loop writes:
\* h_shape always, h_pdf and h_cdf when their flag is set.
Written(group, m) ==
    {<<"shape", HistName(group, m)>>}
    \cup (IF storePDF THEN {<<"pdf", HistName(group, m) \o <<"pdf">>>>} ELSE {})
    \cup (IF storeCDF THEN {<<"cdf", HistName(group, m) \o <<"cdf">>>>} ELSE {})

\* fail += 1; continue
MainSkip(why) ==
    /\ fail' = fail + 1
    /\ gi' = gi + 1
    /\ groupLog' = Append(groupLog, why)
    /\ UNCHANGED <<pc, libVars, groups, step, fineBinning, storePDF, storeCDF, ok,
                   masses, mi, outPath, files, writes, pdf, cdf, summary>>

\* Lines 178-224: one pass of the loop over the groups, up to the mass loop.
\* sys.exit in the constructor raises SystemExit, which is no Exception: the
\* handler of line 198 does not catch it and the process ends.
\* TFile(output_path, "RECREATE") empties a file that exists.
MainGroup ==
    /\ pc = "group"
    /\ gi <= Len(groups)
    /\ \E d \in DiskPool :
         \E order \in KeyOrders(DOMAIN d.shapes) :
            LET shapes_py == ResolveShapesPy(d, groups[gi])
                r == ShapeStorageCheck(d.shapes, order, d.binxcenters)
                mass_keys == Sorted(DOMAIN d.shapes)
            IN  IF shapes_py = None THEN MainSkip("missing")
                ELSE IF ~d.loads THEN MainSkip("load")
                ELSE IF ~d.intKeys THEN MainSkip("content")
                ELSE IF r[1] # 0
                THEN /\ pc' = "exit"
                     /\ exitCode' = r[1]
                     /\ errKey' = r[2]
                     /\ shapes' = d.shapes
                     /\ binxcenters' = d.binxcenters
                     /\ groupLog' = Append(groupLog, "invalid")
                     /\ UNCHANGED <<mass, edges, y, pair, bin, content, integ, filled,
                                    warnings, groups, step, fineBinning, storePDF,
                                    storeCDF, gi, ok, fail, masses, mi, outPath, files,
                                    writes, pdf, cdf, summary>>
                ELSE IF d.zombie THEN MainSkip("output")
                ELSE /\ shapes' = d.shapes
                     /\ binxcenters' = d.binxcenters
                     /\ masses' = MassList(mass_keys[1], mass_keys[Len(mass_keys)], step)
                     /\ mi' = 1
                     /\ outPath' = OutputPath(shapes_py)
                     /\ files' = (OutputPath(shapes_py) :> {}) @@ files
                     /\ groupLog' = Append(groupLog, "open")
                     /\ pc' = "masses"
                     /\ UNCHANGED <<exitCode, errKey, mass, edges, y, pair, bin, content,
                                    integ, filled, warnings, groups, step, fineBinning,
                                    storePDF, storeCDF, gi, ok, fail, writes, pdf, cdf,
                                    summary>>

\* Lines 226-240: the histogram of the next mass is made and LineShapePDF
\* called on it.
MainMass ==
    /\ pc = "masses"
    /\ mi <= Len(masses)
    /\ LET e == IF fineBinning THEN FineEdges ELSE BinBoundaries
           m == masses[mi]
       IN  /\ mass' = m
           /\ edges' = e
           /\ y' = Curve(shapes, m)
           /\ pair' = IF m \in DOMAIN shapes THEN <<>> ELSE BlendPair(shapes, m)
           /\ warnings' = warnings \cup ExtrapolationWarning(shapes, m)
           /\ content' = [i \in 1 .. NbinsX(e) |-> RInt(0)]
           /\ integ' = [i \in 1 .. NbinsX(e) |-> <<>>]
    /\ bin' = 1
    /\ filled' = <<>>
    /\ pdf' = <<>>
    /\ cdf' = <<>>
    /\ pc' = "bins"
    /\ UNCHANGED <<shapes, binxcenters, exitCode, errKey>>
    /\ UNCHANGED <<groups, step, fineBinning, storePDF, storeCDF, gi, ok, fail,
                   groupLog, masses, mi, outPath, files, writes, summary>>

MainWrite_SkipsEmpty ==
    /\ pc = "returned"
    /\ LET hists == IF RLe(RSum(content), RInt(0)) THEN {}
                    ELSE Written(groups[gi], mass)
       IN  /\ files' = [files EXCEPT ![outPath] = @ \cup {h[2] : h \in hists}]
           /\ writes' = writes \cup {<<groups[gi], mass, h[1], outPath, h[2]>> : h \in hists}
    /\ pdf' = IF storePDF \/ storeCDF THEN Pdf(edges, content) ELSE <<>>
    /\ cdf' = IF storePDF \/ storeCDF THEN Cdf(pdf') ELSE <<>>
    /\ mi' = mi + 1
    /\ pc' = "masses"
    /\ UNCHANGED libVars
    /\ UNCHANGED <<groups, step, fineBinning, storePDF, storeCDF, gi, ok, fail,
                   groupLog, masses, outPath, summary>>

\* Lines 242-270: h_shape is written to the output file; when a flag asks for
\* it h_pdf and h_cdf are built from h_shape, and those asked for are written.
MainWrite ==
    /\ pc = "returned"
    /\ LET hists == Written(groups[gi], mass)
       IN  /\ files' = [files EXCEPT ![outPath] = @ \cup {h[2] : h \in hists}]
           /\ writes' = writes \cup {<<groups[gi], mass, h[1], outPath, h[2]>> : h \in hists}
    /\ pdf' = IF storePDF \/ storeCDF THEN Pdf(edges, content) ELSE <<>>
    /\ cdf' = IF storePDF \/ storeCDF THEN Cdf(pdf') ELSE <<>>
    /\ mi' = mi + 1
    /\ pc' = "masses"
    /\ UNCHANGED libVars
    /\ UNCHANGED <<groups, step, fineBinning, storePDF, storeCDF, gi, ok, fail,
                   groupLog, masses, outPath, summary>>

\* Lines 272-275: the output file is closed; the locals of the pass are dead.
MainClose ==
    /\ pc = "masses"
    /\ mi > Len(masses)
    /\ ok' = ok + 1
    /\ gi' = gi + 1
    /\ groupLog' = [groupLog EXCEPT ![gi] = "ok"]
    /\ pc' = "group"
    /\ shapes' = <<>>
    /\ binxcenters' = <<>>
    /\ mass' = 0
    /\ edges' = <<>>
    /\ y' = <<>>
    /\ pair' = <<>>
    /\ bin' = 0
    /\ content' = <<>>
    /\ integ' = <<>>
    /\ filled' = <<>>
    /\ pdf' = <<>>
    /\ cdf' = <<>>
    /\ masses' = <<>>
    /\ mi' = 0
    /\ outPath' = <<>>
    /\ UNCHANGED <<exitCode, errKey, warnings>>
    /\ UNCHANGED <<groups, step, fineBinning, storePDF, storeCDF, fail, files, writes,
                   summary>>

\* Lines 277-279.
MainSummary ==
    /\ pc = "group"
    /\ gi > Len(groups)
    /\ summary' = TRUE
    /\ pc' = IF ok = 0 /\ fail > 0 THEN "exit" ELSE "done"
    /\ exitCode' = IF ok = 0 /\ fail > 0 THEN 2 ELSE 0
    /\ UNCHANGED <<shapes, binxcenters, errKey, mass, edges, y, pair, bin, content,
                   integ, filled, warnings, groups, step, fineBinning, storePDF,
                   storeCDF, gi, ok, fail, groupLog, masses, mi, outPath, files,
                   writes, pdf, cdf>>

NextMain ==
    \/ MainGroup
    \/ MainMass
    \/ LineShapePDFBin
    \/ LineShapePDFScale
    \/ MainWrite
    \/ MainClose
    \/ MainSummary

SpecMain == InitMain /\ [][NextMain]_vars

----------------------------------------------------------------------------
(* Properties of ShapeStorage and LineShapePDF, checked under Spec.        *)

Constructed == pc \in {"stored", "bins", "returned"}
CurveBuilt == pc \in {"bins", "returned"}
Known == DOMAIN shapes
Deviation(shape) == RAbs(RSub(RSum(shape), RInt(1)))
OutOfTolerance(k) == RLt(Rat(1, 100), Deviation(shapes[k]))
LengthsAgree == \A k \in Known : Len(shapes[k]) = Len(binxcenters)
Bins == 1 .. Len(content)
StrictlyIncreasing(xs) == \A i \in 1 .. Len(xs) - 1 : RLt(xs[i], xs[i + 1])

\* yl[i] + (yh[i] - yl[i]) * (m - ml) / (mh - ml), bin for bin
LinearFormula(ml, mh) ==
    [i \in 1 .. Len(shapes[ml]) |->
        RAdd(shapes[ml][i],
             RDiv(RMul(RSub(shapes[mh][i], shapes[ml][i]), RInt(mass - ml)),
                  RInt(mh - ml)))]

\* C1: for a target mass within the known range the curve is the stored shape
\* of a known mass, unchanged, and otherwise the linear formula between the
\* largest known mass below and the smallest known mass above the target; the
\* shapes [0.2,0.3,0.5] and [0.5,0.3,0.2] give [0.35,0.3,0.35] half way.
C1_CurveWithinRange ==
    (CurveBuilt /\ \E a, b \in Known : a <= mass /\ mass <= b) =>
        /\ mass \in Known => y = shapes[mass]
        /\ mass \notin Known =>
             \E ml, mh \in Known :
                /\ ml < mass /\ mass < mh
                /\ \A k \in Known : k <= ml \/ k >= mh
                /\ y = LinearFormula(ml, mh)
        /\ ( /\ Known = {1, 3} /\ mass = 2
             /\ shapes[1] = <<Rat(2, 10), Rat(3, 10), Rat(5, 10)>>
             /\ shapes[3] = <<Rat(5, 10), Rat(3, 10), Rat(2, 10)>> )
           => y = <<Rat(35, 100), Rat(3, 10), Rat(35, 100)>>

C1_Witness ==
    /\ pc = "returned"
    /\ Cardinality(Known) = 3
    /\ mass \notin Known
    /\ \E a, b \in Known : a < mass /\ mass < b
    /\ y # shapes[pair[1]] /\ y # shapes[pair[2]]

\* C2: below the lowest known mass the two lowest known masses are blended,
\* above the highest the two highest, by the same linear formula; a warning is
\* printed, the process does not exit and the call goes on to its return.
C2_Extrapolation ==
    (CurveBuilt /\ mass \notin Known) =>
        /\ (\A k \in Known : mass < k) =>
              /\ \E ml, mh \in Known :
                    /\ ml < mh
                    /\ \A k \in Known : k = ml \/ k >= mh
                    /\ pair = <<ml, mh>>
                    /\ y = LinearFormula(ml, mh)
              /\ "below" \in warnings
        /\ (\A k \in Known : mass > k) =>
              /\ \E ml, mh \in Known :
                    /\ ml < mh
                    /\ \A k \in Known : k = mh \/ k <= ml
                    /\ pair = <<ml, mh>>
                    /\ y = LinearFormula(ml, mh)
              /\ "above" \in warnings
        /\ ((\A k \in Known : mass < k) \/ (\A k \in Known : mass > k)) =>
              /\ exitCode = 0
              /\ pc \in {"bins", "returned"}
              /\ pc = "bins" => bin \in 1 .. NbinsX(edges) + 1
        /\ ( /\ Known = {2, 4} /\ mass = 1
             /\ shapes[2] = <<Rat(2, 10), Rat(3, 10), Rat(5, 10)>>
             /\ shapes[4] = <<Rat(5, 10), Rat(3, 10), Rat(2, 10)>> )
           => y = <<Rat(5, 100), Rat(3, 10), Rat(65, 100)>>

C2_Witness ==
    /\ pc = "returned"
    /\ Cardinality(Known) = 3
    /\ "above" \in warnings
    /\ y # shapes[pair[1]] /\ y # shapes[pair[2]]

\* C3: the constructor exits with code 1 (too few shapes) exactly when fewer
\* than 2 entries are supplied, whatever the shapes and the grid hold.
C3_TooFewShapes ==
    pc # "start" => (exitCode = 1 <=> Cardinality(Known) < 2)

C3_Witness ==
    /\ pc = "exit" /\ exitCode = 1
    /\ \E k \in Known : OutOfTolerance(k) /\ Len(shapes[k]) # Len(binxcenters)

\* C4: with at least 2 shapes the constructor exits with code 3 (not
\* normalized) exactly when some shape's sum deviates from 1 by more than
\* 0.01, and the mass it prints is one of those.
C4_Unnormalized ==
    (pc # "start" /\ Cardinality(Known) >= 2) =>
        /\ exitCode = 3 <=> \E k \in Known : OutOfTolerance(k)
        /\ exitCode = 3 => errKey \in Known /\ OutOfTolerance(errKey)
        /\ exitCode # 3 => errKey = 0

C4_Witness ==
    /\ pc = "exit" /\ exitCode = 3
    /\ RSum(shapes[errKey]) = Rat(105, 100)
    /\ \E k \in Known : RSum(shapes[k]) = Rat(101, 100)

\* C5: with at least 2 shapes, all within tolerance, the constructor exits with
\* code 2 (bin counts differ) exactly when the lengths of the shapes and of the
\* grid are not all equal.
C5_InconsistentBinning ==
    (pc # "start" /\ Cardinality(Known) >= 2 /\ \A k \in Known : ~OutOfTolerance(k)) =>
        (exitCode = 2 <=>
            ~(\A j, k \in Known : Len(shapes[j]) = Len(shapes[k]) /\ LengthsAgree))

C5_Witness ==
    /\ pc = "exit" /\ exitCode = 2
    /\ \A j, k \in Known : Len(shapes[j]) = Len(shapes[k])
    /\ ~LengthsAgree

\* C6 as stated: what the constructor accepts has at least 2 entries, lengths
\* equal to the grid's, sums within 0.01 of 1, positive masses and a strictly
\* increasing grid.
C6_AllInvariantsValidated ==
    Constructed =>
        /\ Cardinality(Known) >= 2
        /\ LengthsAgree
        /\ \A k \in Known : ~OutOfTolerance(k)
        /\ \A k \in Known : k > 0
        /\ StrictlyIncreasing(binxcenters)

\* C6 as amended: what the constructor accepts has at least 2 entries, lengths
\* equal to the grid's and sums within 0.01 of 1, and whatever it rejects
\* violates one of the three and ends the process with a non-zero exit code.
C6_ValidatedInvariants ==
    /\ Constructed =>
          /\ Cardinality(Known) >= 2
          /\ LengthsAgree
          /\ \A k \in Known : ~OutOfTolerance(k)
    /\ pc = "exit" =>
          /\ exitCode \in {1, 2, 3}
          /\ \/ Cardinality(Known) < 2
             \/ ~LengthsAgree
             \/ \E k \in Known : OutOfTolerance(k)
          /\ y = <<>> /\ content = <<>>

C6_Witness ==
    /\ pc = "returned"
    /\ ~StrictlyIncreasing(binxcenters)
    /\ Cardinality(Known) = 3
    /\ \E i \in Bins : integ[i] = <<>>

Done(i) == pc = "returned" \/ (pc = "bins" /\ i < bin)
XFirst == binxcenters[1]
XLast == binxcenters[Len(binxcenters)]
RatioLow(i) == RDiv(edges[i], RInt(mass))
RatioUp(i) == RDiv(edges[i + 1], RInt(mass))
RatioCenter(i) == RDiv(RAdd(edges[i], edges[i + 1]), RInt(2 * mass))

\* C8: no bin of the histogram is negative once it has been set, and none is
\* when LineShapePDF returns, whatever Integ returned.
C8_NonNegative ==
    CurveBuilt => \A i \in Bins : Done(i) => RLe(RInt(0), content[i])

C8_Witness ==
    /\ pc = "returned"
    /\ \E i, j \in Bins :
          /\ integ[i] # <<>> /\ RLt(integ[i][3], RInt(0)) /\ content[i] = RInt(0)
          /\ RLt(RInt(0), content[j])

\* C9: a bin whose center over the mass is not strictly between the first and
\* the last grid point holds exactly 0 and Integ is not called for it; so does
\* every bin whose window [e_lo/m, e_hi/m] misses [x0, xN-1] altogether, also
\* after the scaling.
C9_OutsideDomainIsZero ==
    CurveBuilt =>
        \A i \in Bins : Done(i) =>
            /\ ~(RLt(XFirst, RatioCenter(i)) /\ RLt(RatioCenter(i), XLast)) =>
                  content[i] = RInt(0) /\ integ[i] = <<>>
            /\ (RLt(RatioUp(i), XFirst) \/ RLt(XLast, RatioLow(i))) =>
                  content[i] = RInt(0) /\ integ[i] = <<>>

C9_Witness ==
    /\ pc = "returned"
    /\ \E i, j, k \in Bins :
          /\ RLe(XLast, RatioCenter(i)) /\ RLt(RatioLow(i), XLast)
          /\ content[i] = RInt(0)
          /\ RLt(XLast, RatioLow(k)) /\ content[k] = RInt(0)
          /\ RLt(RInt(0), content[j])

\* C10: with T the total of the bins as integrated, T > 0 leaves every bin
\* multiplied by 1/T and the total 1; T <= 0 leaves every bin as integrated.
C10_Normalization ==
    pc = "returned" =>
        LET T == RSum(filled) IN
        /\ RLt(RInt(0), T) =>
              /\ \A i \in Bins : content[i] = RDiv(filled[i], T)
              /\ RSum(content) = RInt(1)
        /\ RLe(T, RInt(0)) => content = filled

C10_Witness ==
    /\ pc = "returned"
    /\ RLt(RInt(0), RSum(filled))
    /\ RSum(filled) # RInt(1)
    /\ \E i, j \in Bins : RLt(RInt(0), filled[i]) /\ RLt(filled[i], filled[j])

----------------------------------------------------------------------------
(* Properties of main, checked under SpecMain.                             *)

Failed(g) == groupLog[g] \in {"missing", "load", "content", "invalid", "output"}

\* C7: a group whose shapes fail the validation of ShapeStorage leaves no
\* output file and no histogram, is counted as failed, and the run goes on:
\* the process ends only after the later groups and the summary.
C7_ValidationFailureIsLocal ==
    \A g \in DOMAIN groupLog :
        groupLog[g] = "invalid" =>
            /\ outPath = <<>>
            /\ fail = Cardinality({h \in DOMAIN groupLog : Failed(h)})
            /\ pc = "exit" => summary
            /\ pc \in {"exit", "done"} => Len(groupLog) = Len(groups)

----------------------------------------------------------------------------
(* Properties of the mass loop of main, checked under SpecMain.            *)

Total == RSum(filled)
Degenerate == pc = "returned" /\ RLe(Total, RInt(0))

\* C11 as stated: whenever the total of the integrated histogram is <= 0, a
\* warning about it is printed for the caller, and the process does not exit.
C11_DegenerateTotalWarns ==
    Degenerate => (warnings \ {"below", "above"} # {} /\ exitCode = 0)

\* C11, amended: when the total of the integrated histogram is <= 0 the
\* histogram is left as it is, all zero, and nothing is printed; the process
\* does not exit, the histogram is written like any other and the mass loop
\* goes on to the next mass.
C11_DegenerateTotalIsSilent ==
    [][ Degenerate =>
          /\ content = filled
          /\ \A i \in Bins : content[i] = RInt(0)
          /\ warnings = {} /\ warnings' = warnings
          /\ exitCode = 0 /\ exitCode' = 0
          /\ HistName(groups[gi], mass) \in files'[outPath]
          /\ mi' = mi + 1 /\ pc' = "masses" /\ fail' = fail ]_vars

C11_Witness ==
    /\ pc = "masses" /\ mi > 1
    /\ \A i \in Bins : content[i] = RInt(0)
    /\ \E i \in Bins : integ[i] # <<>> /\ RLt(integ[i][3], RInt(0))
    /\ HistName(groups[gi], mass) \in files[outPath]

NFine == NbinsX(FineEdges)
PdfBuilt == pc = "masses" /\ pdf # <<>>
PdfUpTo(i) == RSum([b \in 1 .. i |-> pdf[b]])

\* C12: in the CDF main builds from the PDF, no fine bin is below the bin
\* before it, every fine bin i holds the sum of the PDF's fine bins 1..i, the
\* running total being 0 before the first bin, and the last fine bin holds
\* the sum of the whole PDF.
C12_CdfIsRunningSum ==
    PdfBuilt =>
        /\ cdf[0] = RInt(0)
        /\ \A i \in 1 .. NFine :
              /\ RLe(cdf[i - 1], cdf[i])
              /\ cdf[i] = PdfUpTo(i)
        /\ cdf[NFine] = PdfUpTo(NFine)

C12_Witness ==
    /\ PdfBuilt
    /\ storeCDF
    /\ HistName(groups[gi], mass) \o <<"cdf">> \in files[outPath]
    /\ cdf[NFine] = RInt(1)
    /\ \E i \in 1 .. NFine : RLt(RInt(0), cdf[i]) /\ RLt(cdf[i], cdf[NFine])
    /\ cdf[1] = RInt(0)

MassLoop == pc \in {"masses", "bins", "returned"}
KnownMin == SetMin(Known)
KnownMax == SetMax(Known)

\* C13: the list of the masses main processes for a group with known masses
\* min..max and a step >= 1 is strictly increasing, starts at min and ends at
\* max, which is appended when the step does not land on it; consecutive
\* masses are step apart, except that the last gap may be smaller; every mass
\* is within [min, max], so that LineShapePDF, called from main, never
\* extrapolates.
C13_MassList ==
    /\ MassLoop =>
          /\ step >= 1
          /\ masses[1] = KnownMin
          /\ masses[Len(masses)] = KnownMax
          /\ \A i \in 1 .. Len(masses) - 1 :
                /\ masses[i] < masses[i + 1]
                /\ i < Len(masses) - 1 => masses[i + 1] - masses[i] = step
                /\ masses[i + 1] - masses[i] <= step
          /\ \A i \in 1 .. Len(masses) : KnownMin <= masses[i] /\ masses[i] <= KnownMax
          /\ CurveBuilt =>
                /\ mass = masses[mi]
                /\ pair = IF mass \in Known THEN <<>> ELSE BlendPair(shapes, mass)
                /\ pair # <<>> => pair[1] < mass /\ mass < pair[2]
    /\ warnings = {}

C13_Witness ==
    /\ pc = "masses" /\ mi > Len(masses)
    /\ step > 1
    /\ masses[Len(masses)] - masses[Len(masses) - 1] < step
    /\ Cardinality(files[outPath]) >= Len(masses)

\* The key a call of Write stores its histogram under, and what it is for.
KeyOf(w) == <<w[4], w[5]>>
SubjectOf(w) == <<w[1], w[2], w[3]>>

\* C14: within one run of main no two histograms written for different
\* (group, mass, kind) are stored under the same key (output file, histogram
\* name), and no histogram written is lost from its file to a later group or
\* mass.
C14_CollisionFreeKeys ==
    /\ \A a, b \in writes : SubjectOf(a) # SubjectOf(b) => KeyOf(a) # KeyOf(b)
    /\ \A a \in writes : a[4] \in DOMAIN files /\ a[5] \in files[a[4]]

\* The fine bins that lie within bin i of h_shape, and the window of bin i.
Inside(i) ==
    {b \in 1 .. NFine : RLe(edges[i], FineEdges[b]) /\ RLe(FineEdges[b + 1], edges[i + 1])}
Window(i) == PdfWindow(edges, i)[1] .. PdfWindow(edges, i)[2]

\* C15: in the PDF main builds from h_shape, with the standard binning as
\* with the fine binning, the window of every bin i of h_shape is the set of
\* the fine bins within that bin, width is their number, and each of them
\* holds content[i] / width; the windows are not empty and each ends before
\* the next begins, so that no two of them share a fine bin; so the PDF sums
\* to the total of h_shape.
C15_PdfSpreadsBins ==
    PdfBuilt =>
        /\ edges = IF fineBinning THEN FineEdges ELSE BinBoundaries
        /\ \A i \in Bins :
              LET w == PdfWindow(edges, i)
                  width == PdfWidth(w)
              IN  /\ w[1] .. w[2] = Inside(i)
                  /\ width = Cardinality(w[1] .. w[2])
                  /\ \A b \in w[1] .. w[2] : pdf[b] = RDiv(content[i], RInt(width))
                  /\ w[1] <= w[2]
                  /\ i < Len(content) => w[2] < PdfWindow(edges, i + 1)[1]
        /\ PdfUpTo(NFine) = RSum(content)

C15_Witness ==
    /\ PdfBuilt
    /\ ~fineBinning /\ storePDF
    /\ HistName(groups[gi], mass) \o <<"pdf">> \in files[outPath]
    /\ \E i \in Bins : RLt(RInt(0), content[i]) /\ Cardinality(Window(i)) > 1
    /\ PdfUpTo(NFine) = RInt(1)

----------------------------------------------------------------------------
(* The limits of the integration, checked under Spec.                      *)

Integrated(i) == integ[i] # <<>>

\* C16: for a target mass > 0, a strictly increasing x grid and strictly
\* increasing bin edges, every call of Integ that LineShapePDF makes has limits
\* a, b with x[0] <= a <= b <= x[-1]: after the clamping the lower limit is
\* not above the upper one and neither is outside the domain of the curve.
C16_LimitsWithinDomain ==
    (CurveBuilt /\ mass > 0 /\ StrictlyIncreasing(binxcenters)
        /\ StrictlyIncreasing(edges)) =>
        \A i \in Bins :
            Integrated(i) =>
                /\ RLe(XFirst, integ[i][1])
                /\ RLe(integ[i][1], integ[i][2])
                /\ RLe(integ[i][2], XLast)

C16_Witness ==
    /\ pc = "returned" /\ mass > 0
    /\ StrictlyIncreasing(binxcenters) /\ StrictlyIncreasing(edges)
    /\ \E i, j, k \in Bins :
          /\ Integrated(i) /\ RLt(RatioLow(i), XFirst) /\ integ[i][1] = XFirst
          /\ Integrated(j) /\ RLt(XLast, RatioUp(j)) /\ integ[j][2] = XLast
          /\ Integrated(k) /\ integ[k][1] = RatioLow(k) /\ integ[k][2] = RatioUp(k)
====
